---------------------------- MODULE Spec2Model ----------------------------
(***************************************************************************)
(* Model of chemml/wrapper/engine.py: the cycle detector cycle_in_graph,   *)
(* and Parser.serialize / make_graph / hierarchicy.                        *)
(*                                                                         *)
(* Python strings are sequences of one-character strings, so that the      *)
(* token resolver (val[0], count, strip, split) is computed and not        *)
(* assumed.  A dict is an ordered dictionary [keys, val]: keys is the      *)
(* insertion order (the order Python iterates in), val maps a key to its   *)
(* value.  Lists are sequences.                                            *)
(***************************************************************************)
EXTENDS Integers, Sequences, FiniteSets, TLC

VARIABLES
    entry,        \* the function the behaviour calls: "cycle_in_graph", "hierarchicy" or "serialize"
    pc,           \* position in the code
    err,          \* the exception that ended the call, "none" while there is none
    send_recv,    \* send_recv[node_id] = [send: names, recv: <<node_id, name>> pairs]
    graph,        \* make_graph: the edge list, <<sender, receiver>> pairs
    graph_send,   \* forward adjacency (the argument of cycle_in_graph)
    graph_recv,   \* reverse adjacency
    start_nodes,  \* hierarchicy: start_nodes
    end_nodes,    \* hierarchicy: end_nodes
    layers,       \* hierarchicy: layers
    collected,    \* hierarchicy: collected
    visited,      \* cycle_in_graph: visited
    path,         \* cycle_in_graph: path
    path_set,     \* cycle_in_graph: path_set
    stack,        \* cycle_in_graph: stack of iterators
    cycle_ret,    \* cycle_in_graph: returned value, "none" before the return
    expanded,     \* history: the vertices appended to path so far, in order
    input_dict,   \* Parser.input_dict: the document, mutated in place by serialize
    authored,     \* history: the document as it was handed to the first call of serialize
    all_received, \* serialize: all_received
    block_i,      \* serialize: the position of the first loop in input_dict['nodes']
    run,          \* the number of the current call of serialize on the document
    first,        \* history: what the first call of serialize returned and left of the document
    persisted,    \* run: the contents of input.json, <<>> before it is written
    wrapper,      \* run: the Wrapper object, <<>> before it is constructed
    group_i,      \* Wrapper.call: the position of the outer loop in self.layers
    node_i,       \* Wrapper.call: the position of the inner loop in group
    log,          \* history: the block_start / block_end / finish messages printed so far
    self_stack,   \* Stack.stack: the data on the edges
    calls         \* history: the calls of Stack.push and Stack.pull with what they returned

vars == <<entry, pc, err, send_recv, graph, graph_send, graph_recv,
          start_nodes, end_nodes, layers, collected,
          visited, path, path_set, stack, cycle_ret, expanded,
          input_dict, authored, all_received, block_i, run, first,
          persisted, wrapper, group_i, node_i, log, self_stack, calls>>

\* the state of hierarchicy, of cycle_in_graph, of the graph builder, and
\* of serialize and its callers
hierVars == <<start_nodes, end_nodes, layers, collected>>
cycleVars == <<visited, path, path_set, stack, cycle_ret, expanded>>
graphVars == <<graph, graph_send, graph_recv>>
docVars == <<input_dict, authored, all_received, block_i, run, first>>

\* the state of run and of the Wrapper, and of the Stack
wrapperVars == <<persisted, wrapper, group_i, node_i, log>>
stackVars == <<self_stack, calls>>
runVars == <<wrapperVars, stackVars>>

\* what cycle_in_graph has no access to
nonCycleVars == <<send_recv, graphVars, hierVars, docVars, runVars>>

---------------------------------------------------------------------------
(* Bounds *)

\* longest adjacency list of a graph handed directly to cycle_in_graph
MaxDeg == 2

---------------------------------------------------------------------------
(* Generic helpers *)

Range(s) == {s[i] : i \in 1..Len(s)}

\* the sequences over S of length at most n
SeqUpTo(S, n) == UNION {[1..k -> S] : k \in 0..n}

\* an empty dict
EmptyDict == [keys |-> <<>>, val |-> <<>>]

\* d.get(k, ()) of a dict of lists
DictGet(d, k) == IF k \in DOMAIN d.val THEN d.val[k] ELSE <<>>

\* iter(s): an iterator is the sequence it runs over and the number of
\* elements it has already yielded
Iter(s) == [seq |-> s, pos |-> 0]

---------------------------------------------------------------------------
(* Node ids *)

IdA == <<"A">>
IdB == <<"B">>
IdC == <<"C">>

\* the vertices of the graphs handed directly to cycle_in_graph
Vertices == <<IdA, IdB, IdC>>

\* path = [object()]: a fresh object, equal to no vertex
Sentinel == <<"object()">>

---------------------------------------------------------------------------
(* cycle_in_graph *)

\* the edges of a graph given as a dict vertex -> neighbours
EdgesOf(g) == {<<u, v>> \in (DOMAIN g.val) \X (UNION {Range(g.val[k]) : k \in DOMAIN g.val}) :
                  v \in Range(g.val[u])}

VerticesOf(g) == (DOMAIN g.val) \cup UNION {Range(g.val[k]) : k \in DOMAIN g.val}

\* P with the pairs that an edge of E extends
Extend(P, E) == P \cup {<<pq[1][1], pq[2][2]>> : pq \in {pq \in P \X E : pq[1][2] = pq[2][1]}}

\* the pairs joined by a path of at least one and at most n edges
RECURSIVE PathsUpTo(_, _)
PathsUpTo(E, n) == IF n <= 1 THEN E ELSE Extend(PathsUpTo(E, n - 1), E)

\* pairs <<u, w>> with an edge path u -> ... -> w
Reach(g) ==
    LET E == EdgesOf(g)
        P == PathsUpTo(E, Cardinality(VerticesOf(g)))
    IN  P

\* the graph has a directed cycle
HasCycle(g) == \E p \in Reach(g) : p[1] = p[2]

\* the cycle detector before it is called
CycleIdle ==
    /\ visited = {}
    /\ path = <<>>
    /\ path_set = {}
    /\ stack = <<>>
    /\ cycle_ret = "none"
    /\ expanded = <<>>

\* the layering scheduler before it is called
HierIdle ==
    /\ start_nodes = <<>>
    /\ end_nodes = <<>>
    /\ layers = <<>>
    /\ collected = <<>>

\* no document: the function is called on its own
DocIdle ==
    /\ input_dict = <<>>
    /\ authored = <<>>
    /\ all_received = <<>>
    /\ block_i = 0
    /\ run = 0
    /\ first = <<>>

\* run has not been called: nothing is persisted, there is no Wrapper and no Stack
RunIdle ==
    /\ persisted = <<>>
    /\ wrapper = <<>>
    /\ group_i = 0
    /\ node_i = 0
    /\ log = <<>>
    /\ self_stack = <<>>
    /\ calls = <<>>

CycleStart ==
    /\ pc = "cycle_in_graph"
    /\ visited' = {}
    /\ path' = <<Sentinel>>
    /\ path_set' = {Sentinel}
    /\ stack' = <<Iter(graph_send.keys)>>
    /\ pc' = "cycle_loop"
    /\ UNCHANGED <<entry, err, nonCycleVars, cycle_ret, expanded>>

\* where cycle_in_graph returns to
CycleReturnPc == IF entry = "cycle_in_graph" THEN "done" ELSE "serialize_cycle_checked"

\* the vertex the iterator on top of the stack yields next
TopIter == stack[Len(stack)]
TopHasNext == TopIter.pos < Len(TopIter.seq)
TopNext == TopIter.seq[TopIter.pos + 1]
AdvanceTop == [stack EXCEPT ![Len(stack)].pos = @ + 1]

\* (mutation) the test of the path made on visited
OnPath_visited(v) == v \in visited

\* if v in path_set
OnPath(v) == v \in path_set

\* (mutation) every vertex off the path is expanded, visited or not
Unvisited_always(v) == TRUE

\* elif v not in visited
Unvisited(v) == v \notin visited

\* while stack: ... return False
CycleReturnFalse ==
    /\ pc = "cycle_loop"
    /\ stack = <<>>
    /\ cycle_ret' = "False"
    /\ pc' = CycleReturnPc
    /\ UNCHANGED <<entry, err, nonCycleVars, visited, path, path_set, stack, expanded>>

\* for v in stack[-1]: if v in path_set: return True
CycleReturnTrue ==
    /\ pc = "cycle_loop"
    /\ stack # <<>>
    /\ TopHasNext
    /\ OnPath(TopNext)
    /\ stack' = AdvanceTop
    /\ cycle_ret' = "True"
    /\ pc' = CycleReturnPc
    /\ UNCHANGED <<entry, err, nonCycleVars, visited, path, path_set, expanded>>

\* elif v not in visited: visited.add(v); path.append(v); path_set.add(v);
\*                        stack.append(iter(graph.get(v, ()))); break
CycleExpand ==
    /\ pc = "cycle_loop"
    /\ stack # <<>>
    /\ TopHasNext
    /\ ~OnPath(TopNext)
    /\ Unvisited(TopNext)
    /\ visited' = visited \cup {TopNext}
    /\ path' = Append(path, TopNext)
    /\ path_set' = path_set \cup {TopNext}
    /\ stack' = Append(AdvanceTop, Iter(DictGet(graph_send, TopNext)))
    /\ expanded' = Append(expanded, TopNext)
    /\ UNCHANGED <<entry, pc, err, nonCycleVars, cycle_ret>>

\* a visited vertex that is off the path: the for loop goes on
CycleSkip ==
    /\ pc = "cycle_loop"
    /\ stack # <<>>
    /\ TopHasNext
    /\ ~OnPath(TopNext)
    /\ ~Unvisited(TopNext)
    /\ stack' = AdvanceTop
    /\ UNCHANGED <<entry, pc, err, nonCycleVars, visited, path, path_set,
                   cycle_ret, expanded>>

\* for ... else: path_set.remove(path.pop()); stack.pop()
CycleBacktrack ==
    /\ pc = "cycle_loop"
    /\ stack # <<>>
    /\ ~TopHasNext
    /\ path_set' = path_set \ {path[Len(path)]}
    /\ path' = SubSeq(path, 1, Len(path) - 1)
    /\ stack' = SubSeq(stack, 1, Len(stack) - 1)
    /\ UNCHANGED <<entry, pc, err, nonCycleVars, visited, cycle_ret, expanded>>

CycleStep ==
    \/ CycleStart
    \/ CycleReturnFalse
    \/ CycleReturnTrue
    \/ CycleExpand
    \/ CycleSkip
    \/ CycleBacktrack

---------------------------------------------------------------------------
(* cycle_in_graph called on its own, on every graph over Vertices whose    *)
(* adjacency lists have at most MaxDeg entries.  The keys are a prefix of  *)
(* Vertices: the set of graphs is closed under renaming the vertices, so   *)
(* every key set and key order is covered up to renaming.                  *)

GraphsOn(keyseq) ==
    {[keys |-> keyseq, val |-> adj] :
        adj \in [Range(keyseq) -> SeqUpTo(Range(Vertices), MaxDeg)]}

InitCycle ==
    /\ entry = "cycle_in_graph"
    /\ pc = "cycle_in_graph"
    /\ err = "none"
    /\ \E k \in 0..Len(Vertices) : graph_send \in GraphsOn(SubSeq(Vertices, 1, k))
    /\ graph_recv = EmptyDict
    /\ send_recv = EmptyDict
    /\ graph = <<>>
    /\ HierIdle
    /\ CycleIdle
    /\ DocIdle
    /\ RunIdle

NextCycle == CycleStep

SpecCycle == InitCycle /\ [][NextCycle]_vars

\* the call is one thread of control: a step that can be taken is taken
SpecCycleFair == SpecCycle /\ WF_vars(NextCycle)

---------------------------------------------------------------------------
(* Parser.make_graph *)

\* [f(s[1]), ..., f(s[n])]
MapSeq(s, f(_)) == [i \in 1..Len(s) |-> f(s[i])]

\* the concatenation of a sequence of sequences
RECURSIVE Concat(_)
Concat(ss) == IF ss = <<>> THEN <<>> ELSE Head(ss) \o Concat(Tail(ss))

\* {id: [] for id in send_recv}
EmptyAdjacency(sr) == [keys |-> sr.keys, val |-> [id \in DOMAIN sr.val |-> <<>>]]

\* the (node_id, item) pairs in the order the two nested for loops visit them
RecvVisits(sr) ==
    Concat([i \in 1..Len(sr.keys) |->
              LET node_id == sr.keys[i]
              IN  [j \in 1..Len(sr.val[node_id].recv) |->
                      [node_id |-> node_id, item |-> sr.val[node_id].recv[j]]]])

\* ref = send_recv.get(item[0], {}); 'send' not in ref or item[1] not in ref['send']
BrokenPipe(sr, item) ==
    \/ item[1] \notin DOMAIN sr.val
    \/ item[2] \notin Range(sr.val[item[1]].send)

\* (mutation) the edge is appended as (receiver, sender)
RECURSIVE MakeGraphFrom_reversed(_, _, _, _)
MakeGraphFrom_reversed(sr, visits, i, acc) ==
    IF i > Len(visits) THEN acc
    ELSE LET node_id == visits[i].node_id
             item == visits[i].item
         IN  IF BrokenPipe(sr, item)
             THEN [acc EXCEPT !.raised = TRUE]
             ELSE MakeGraphFrom_reversed(sr, visits, i + 1,
                    [raised |-> FALSE,
                     graph_send |-> [acc.graph_send EXCEPT !.val[item[1]] = Append(@, node_id)],
                     graph_recv |-> [acc.graph_recv EXCEPT !.val[node_id] = Append(@, item[1])],
                     graph |-> Append(acc.graph, <<node_id, item[1]>>)])

\* the loop body from visit i on; raised is set at the first broken pipe
RECURSIVE MakeGraphFrom(_, _, _, _)
MakeGraphFrom(sr, visits, i, acc) ==
    IF i > Len(visits) THEN acc
    ELSE LET node_id == visits[i].node_id
             item == visits[i].item
         IN  IF BrokenPipe(sr, item)
             THEN [acc EXCEPT !.raised = TRUE]
             ELSE MakeGraphFrom(sr, visits, i + 1,
                    [raised |-> FALSE,
                     graph_send |-> [acc.graph_send EXCEPT !.val[item[1]] = Append(@, node_id)],
                     graph_recv |-> [acc.graph_recv EXCEPT !.val[node_id] = Append(@, item[1])],
                     graph |-> Append(acc.graph, <<item[1], node_id>>)])

make_graph(sr) ==
    MakeGraphFrom(sr, RecvVisits(sr), 1,
                  [raised |-> FALSE, graph_send |-> EmptyAdjacency(sr),
                   graph_recv |-> EmptyAdjacency(sr), graph |-> <<>>])

BrokenPipeError == "ValueError: broken pipe"

\* graph, graph_send, graph_recv = self.make_graph(send_recv)
MakeGraph ==
    /\ pc = "make_graph"
    /\ LET r == make_graph(send_recv)
       IN  IF r.raised
           THEN /\ err' = BrokenPipeError
                /\ pc' = "raised"
                /\ UNCHANGED graphVars
           ELSE /\ graph' = r.graph
                /\ graph_send' = r.graph_send
                /\ graph_recv' = r.graph_recv
                /\ pc' = IF entry = "hierarchicy" THEN "hierarchicy" ELSE "cycle_in_graph"
                /\ UNCHANGED err
    /\ UNCHANGED <<entry, send_recv, hierVars, cycleVars, docVars, runVars>>

---------------------------------------------------------------------------
(* Parser.hierarchicy *)

\* rounds of the while loop after which the model stops following it
MaxRounds == 6

\* s with the elements that satisfy Test, in order
Filter(s, Test(_)) == SelectSeq(s, Test)

\* for id in graph_send: if len(graph_send[id]) == 0: end_nodes.append(id)
EndNodes(gs, gr) ==
    LET IsEnd(id) == Len(gs.val[id]) = 0
    IN  Filter(gs.keys, IsEnd)

\* (mutation) every node that sends starts, whatever it receives
StartNodes_senders(gs, gr) ==
    LET IsStart(id) == Len(gs.val[id]) # 0
    IN  Filter(gs.keys, IsStart)

\* elif len(graph_recv[id]) == 0: start_nodes.append(id)
StartNodes(gs, gr) ==
    LET IsStart(id) == Len(gs.val[id]) # 0 /\ Len(gr.val[id]) = 0
    IN  Filter(gs.keys, IsStart)

\* (mutation) the test 'id not in collected' left out
NextLayer_again(gr, coll) ==
    LET Ready(id) == Range(gr.val[id]) \subseteq Range(coll)
    IN  Filter(gr.keys, Ready)

\* for id in graph_recv:
\*     if id not in collected and set(graph_recv[id]) <= set(collected)
NextLayer(gr, coll) ==
    LET Ready(id) == id \notin Range(coll) /\ Range(gr.val[id]) \subseteq Range(coll)
    IN  Filter(gr.keys, Ready)

\* start_nodes, end_nodes; layers = [start_nodes]; collected = [i for i in start_nodes]
HierStart ==
    /\ pc = "hierarchicy"
    /\ start_nodes' = StartNodes(graph_send, graph_recv)
    /\ end_nodes' = EndNodes(graph_send, graph_recv)
    /\ layers' = <<StartNodes(graph_send, graph_recv)>>
    /\ collected' = StartNodes(graph_send, graph_recv)
    /\ pc' = "hier_loop"
    /\ UNCHANGED <<entry, err, send_recv, graphVars, cycleVars, docVars, runVars>>

\* (mutation) the round appends its layer and leaves collected as it was
HierRound_forgetful ==
    /\ pc = "hier_loop"
    /\ Len(collected) < Len(graph_send.keys)
    /\ Len(layers) <= MaxRounds
    /\ layers' = Append(layers, NextLayer(graph_recv, collected))
    /\ UNCHANGED <<entry, pc, err, send_recv, graphVars, start_nodes, end_nodes, collected,
                   cycleVars, docVars, runVars>>

\* while len(collected) < len(graph_send): one pass of the body
HierRound ==
    /\ pc = "hier_loop"
    /\ Len(collected) < Len(graph_send.keys)
    /\ Len(layers) <= MaxRounds
    /\ layers' = Append(layers, NextLayer(graph_recv, collected))
    /\ collected' = collected \o NextLayer(graph_recv, collected)
    /\ UNCHANGED <<entry, pc, err, send_recv, graphVars, start_nodes, end_nodes, cycleVars,
                   docVars, runVars>>

SinkError == "ValueError: not constructed properly"

\* (mutation) only the members of the last layer are checked to be end nodes
SinkMismatch_subset(ends, ls) == ~(Range(ls[Len(ls)]) \subseteq Range(ends))

\* if set(end_nodes) != set(layers[-1]): raise ValueError
SinkMismatch(ends, ls) == Range(ends) # Range(ls[Len(ls)])

\* the loop is over: validate layers, then return layers
HierValidate ==
    /\ pc = "hier_loop"
    /\ ~(Len(collected) < Len(graph_send.keys))
    /\ IF SinkMismatch(end_nodes, layers)
       THEN err' = SinkError /\ pc' = "raised"
       ELSE err' = err /\ pc' = IF entry = "hierarchicy" THEN "done" ELSE "serialize_layered"
    /\ UNCHANGED <<entry, send_recv, graphVars, hierVars, cycleVars, docVars, runVars>>

HierStep ==
    \/ HierStart
    \/ HierRound
    \/ HierValidate

---------------------------------------------------------------------------
(* make_graph and hierarchicy called on their own, on every send_recv map  *)
(* over NodeIds whose recv references, MaxRefs at most in all, name        *)
(* declared sends.  Each node sends x when some node receives it.  The     *)
(* keys are in one order: the set of maps is closed under renaming nodes.  *)

\* recv references of a send_recv map handed directly to make_graph
MaxRefs == 3

IdD == <<"D">>
IdE == <<"E">>
NodeIds == <<IdA, IdB, IdC, IdD, IdE>>
VarX == <<"x">>

\* the first k node ids
FirstIds(k) == SubSeq(NodeIds, 1, k)

\* the reference lists on the first k nodes: each reference names its
\* consumer and its producer
RefLists(k) == SeqUpTo(Range(FirstIds(k)) \X Range(FirstIds(k)), MaxRefs)

\* the map on the first k nodes in which refs[i][1] receives x from
\* refs[i][2], in that order
SendRecvOf(k, refs) ==
    [keys |-> FirstIds(k),
     val |-> [id \in Range(FirstIds(k)) |->
                LET Mine(r) == r[1] = id
                    Producer(r) == <<r[2], VarX>>
                IN  [send |-> IF \E i \in 1..Len(refs) : refs[i][2] = id THEN <<VarX>> ELSE <<>>,
                     recv |-> MapSeq(Filter(refs, Mine), Producer)]]]

InitLayer ==
    /\ entry = "hierarchicy"
    /\ pc = "make_graph"
    /\ err = "none"
    /\ \E k \in 0..Len(NodeIds) : \E refs \in RefLists(k) : send_recv = SendRecvOf(k, refs)
    /\ graph = <<>>
    /\ graph_send = EmptyDict
    /\ graph_recv = EmptyDict
    /\ HierIdle
    /\ CycleIdle
    /\ DocIdle
    /\ RunIdle

NextLayering == MakeGraph \/ HierStep

SpecLayer == InitLayer /\ [][NextLayering]_vars

\* the call is one thread of control: a step that can be taken is taken
SpecLayerFair == SpecLayer /\ WF_vars(NextLayering)

---------------------------------------------------------------------------
(* Values of the document and the token resolver of Parser.serialize *)

\* a JSON value: a boolean, a string (a sequence of characters) or a number
BoolVal(b) == [bool |-> b]
StrVal(s) == [str |-> s]
NumVal(n) == [num |-> n]

\* isinstance(val, str), isinstance(val, bool)
IsStr(val) == DOMAIN val = {"str"}
IsBool(val) == DOMAIN val = {"bool"}

At == "@"
Space == " "

\* s.count(c)
Count(s, c) == Cardinality({i \in 1..Len(s) : s[i] = c})

\* s.strip(), for the whitespace character Space
RECURSIVE LStrip(_)
LStrip(s) == IF s # <<>> /\ Head(s) = Space THEN LStrip(Tail(s)) ELSE s

RECURSIVE RStrip(_)
RStrip(s) == IF s # <<>> /\ s[Len(s)] = Space THEN RStrip(SubSeq(s, 1, Len(s) - 1)) ELSE s

Strip(s) == RStrip(LStrip(s))

\* s.split(c)
RECURSIVE Split(_, _)
Split(s, c) ==
    IF \A i \in 1..Len(s) : s[i] # c THEN <<s>>
    ELSE LET i == CHOOSE k \in 1..Len(s) : s[k] = c /\ \A j \in 1..(k - 1) : s[j] # c
         IN  <<SubSeq(s, 1, i - 1)>> \o Split(SubSeq(s, i + 1, Len(s)), c)

\* isinstance(val, str) and val[0] == '@' and val.count('@') == 2:
\* "yes", "no", or "IndexError" when val[0] is taken of the empty string
RefTest(val) ==
    IF ~IsStr(val) THEN "no"
    ELSE IF val.str = <<>> THEN "IndexError"
    ELSE IF val.str[1] = At /\ Count(val.str, At) = 2 THEN "yes"
    ELSE "no"

IsRef(val) == RefTest(val) = "yes"

\* (mutation) the indices of temp off by one: (temp[0], temp[1])
RefOf_shifted(val) ==
    LET temp == Split(Strip(val.str), At)
    IN  <<temp[1], temp[2]>>

\* temp = val.strip().split('@'); (temp[1], temp[2])
RefOf(val) ==
    LET temp == Split(Strip(val.str), At)
    IN  <<temp[2], temp[3]>>

\* isinstance(val, bool) and val
IsSend(val) == IsBool(val) /\ val.bool

---------------------------------------------------------------------------
(* The document *)

\* block[key] of a key that may be absent: an absent section has no entries
Section(block, key) == IF key \in DOMAIN block THEN block[key] ELSE EmptyDict

\* block['method'][key] when both are there
MethodSection(block, key) ==
    IF "method" \in DOMAIN block /\ key \in DOMAIN block["method"]
    THEN block["method"][key] ELSE EmptyDict

\* the values of a section in the order of its keys
SectionValues(sec) == [i \in 1..Len(sec.keys) |-> sec.val[sec.keys[i]]]

\* d[k] = v
DictSet(d, k, v) ==
    IF k \in DOMAIN d.val
    THEN [d EXCEPT !.val[k] = v]
    ELSE [keys |-> Append(d.keys, k), val |-> d.val @@ (k :> v)]

\* the recv references a section gives, in order
RecvIn(sec) == MapSeq(Filter(SectionValues(sec), IsRef), RefOf)

\* the names a section declares as sent, in order
SendIn(sec) ==
    LET Sent(var) == IsSend(sec.val[var])
    IN  Filter(sec.keys, Sent)

\* some value of the section makes val[0] raise IndexError
IndexErrorIn(sec) == \E var \in DOMAIN sec.val : RefTest(sec.val[var]) = "IndexError"

\* lines 161-199: the recv list of a block
BlockRecv(block) ==
    RecvIn(Section(block, "inputs")) \o RecvIn(Section(block, "wrapper_io"))
        \o RecvIn(MethodSection(block, "inputs"))

\* lines 169-199: the send list of a block
BlockSend(block) ==
    SendIn(Section(block, "outputs")) \o SendIn(Section(block, "wrapper_io"))
        \o SendIn(MethodSection(block, "outputs"))

\* the scan of the block raises IndexError
BlockIndexError(block) ==
    \/ IndexErrorIn(Section(block, "inputs"))
    \/ IndexErrorIn(Section(block, "wrapper_io"))
    \/ IndexErrorIn(MethodSection(block, "inputs"))

---------------------------------------------------------------------------
(* Parser.validate_keys *)

all_keys == {"name", "library", "module", "inputs", "outputs", "method", "wrapper_io"}

NoNodesError == "ValueError: not a valid ChemMLWrapper input"
NameError == "ValueError: name of class/function is missing"
LibraryError == "ValueError: name of library is missing"
KeysError == "ValueError: redundant or irrelevant keys"
IndexErr == "IndexError: string index out of range"

\* the exception validate_keys raises for the block, "none" if it returns
validate_keys(block) ==
    IF "name" \notin DOMAIN block THEN NameError
    ELSE IF "library" \notin DOMAIN block THEN LibraryError
    ELSE IF ~(DOMAIN block \subseteq all_keys) THEN KeysError
    ELSE "none"

---------------------------------------------------------------------------
(* Parser.serialize: the redundant sends *)

\* for token in send_recv[id]['send']: all_sent.append((id, token))
AllSent(sr) ==
    Concat([i \in 1..Len(sr.keys) |->
              LET id == sr.keys[i]
              IN  [j \in 1..Len(sr.val[id].send) |-> <<id, sr.val[id].send[j]>>]])

\* (mutation) only the nodes that send something count as receivers, so
\* that turning off the sends of a consumer cascades to its producers
AllReceived_senders(sr) ==
    Concat([i \in 1..Len(sr.keys) |->
              IF \E item \in Range(AllSent(sr)) :
                      /\ item[1] = sr.keys[i]
                      /\ \E c \in DOMAIN sr.val : item \in Range(sr.val[c].recv)
              THEN sr.val[sr.keys[i]].recv ELSE <<>>])

\* for id in send_recv: all_received += send_recv[id]['recv']
AllReceived(sr) == Concat([i \in 1..Len(sr.keys) |-> sr.val[sr.keys[i]].recv])

\* (mutation) a send counts as received when its name is received from any node
Redundant_byName(sent, received) ==
    LET NotReceived(item) == \A r \in Range(received) : r[2] # item[2]
    IN  Filter(sent, NotReceived)

\* for item in all_sent: if item not in all_received: redundant.append(item)
Redundant(sent, received) ==
    LET NotReceived(item) == item \notin Range(received)
    IN  Filter(sent, NotReceived)

\* list.remove(x): the first x is removed
Remove(s, x) ==
    LET i == CHOOSE k \in 1..Len(s) : s[k] = x /\ \A j \in 1..(k - 1) : s[j] # x
    IN  SubSeq(s, 1, i - 1) \o SubSeq(s, i + 1, Len(s))

\* if var in outputs: outputs[var] = False
SwitchOff(sec, var) ==
    IF var \in DOMAIN sec.val THEN [sec EXCEPT !.val[var] = BoolVal(FALSE)] ELSE sec

\* lines 223-232 on one block; .get(key, {}) of an absent key gives a
\* dict that is thrown away
TurnOff(block, var) ==
    LET b1 == IF "outputs" \in DOMAIN block
              THEN [block EXCEPT !["outputs"] = SwitchOff(@, var)] ELSE block
        b2 == IF "method" \in DOMAIN b1 /\ "outputs" \in DOMAIN b1["method"]
              THEN [b1 EXCEPT !["method"]["outputs"] = SwitchOff(@, var)] ELSE b1
    IN  IF "wrapper_io" \in DOMAIN b2
        THEN [b2 EXCEPT !["wrapper_io"] = SwitchOff(@, var)] ELSE b2

\* for item in redundant: ..., from item i on; st = [send_recv, input_dict]
RECURSIVE PruneFrom(_, _, _)
PruneFrom(st, redundant, i) ==
    IF i > Len(redundant) THEN st
    ELSE LET id == redundant[i][1]
             var == redundant[i][2]
         IN  PruneFrom([send_recv |-> [st.send_recv EXCEPT !.val[id].send = Remove(@, var)],
                        input_dict |-> [st.input_dict EXCEPT !.nodes.val[id] = TurnOff(@, var)]],
                       redundant, i + 1)

---------------------------------------------------------------------------
(* Parser.serialize *)

CycleError == "ValueError: constructed of cycles"

\* the start of a call of serialize: its locals are fresh
FreshLocals ==
    /\ send_recv' = EmptyDict
    /\ all_received' = <<>>
    /\ graph' = <<>>
    /\ graph_send' = EmptyDict
    /\ graph_recv' = EmptyDict
    /\ start_nodes' = <<>>
    /\ end_nodes' = <<>>
    /\ layers' = <<>>
    /\ collected' = <<>>
    /\ visited' = {}
    /\ path' = <<>>
    /\ path_set' = {}
    /\ stack' = <<>>
    /\ cycle_ret' = "none"
    /\ expanded' = <<>>

\* if 'nodes' not in self.input_dict.keys(): raise ValueError; send_recv = {}
SerializeStart ==
    /\ pc = "serialize"
    /\ IF "nodes" \notin DOMAIN input_dict
       THEN err' = NoNodesError /\ pc' = "raised" /\ block_i' = block_i
       ELSE err' = err /\ pc' = "scan" /\ block_i' = 1
    /\ UNCHANGED <<entry, send_recv, graphVars, hierVars, cycleVars,
                   input_dict, authored, all_received, run, first, runVars>>

\* one pass of 'for block_id in self.input_dict['nodes'].keys()'
ScanBlock ==
    /\ pc = "scan"
    /\ block_i <= Len(input_dict.nodes.keys)
    /\ LET block_id == input_dict.nodes.keys[block_i]
           block == input_dict.nodes.val[block_id]
       IN  IF validate_keys(block) # "none"
           THEN /\ err' = validate_keys(block)
                /\ pc' = "raised"
                /\ UNCHANGED <<send_recv, block_i>>
           ELSE IF BlockIndexError(block)
           THEN /\ err' = IndexErr
                /\ pc' = "raised"
                /\ UNCHANGED <<send_recv, block_i>>
           ELSE /\ send_recv' = DictSet(send_recv, block_id,
                                        [send |-> BlockSend(block), recv |-> BlockRecv(block)])
                /\ block_i' = block_i + 1
                /\ UNCHANGED <<err, pc>>
    /\ UNCHANGED <<entry, graphVars, hierVars, cycleVars,
                   input_dict, authored, all_received, run, first, runVars>>

\* (mutation) the sends are turned off in send_recv only
Prune_keepDocument ==
    /\ pc = "scan"
    /\ block_i > Len(input_dict.nodes.keys)
    /\ LET received == AllReceived(send_recv)
           st == PruneFrom([send_recv |-> send_recv, input_dict |-> input_dict],
                           Redundant(AllSent(send_recv), received), 1)
       IN  /\ all_received' = received
           /\ send_recv' = st.send_recv
    /\ pc' = "make_graph"
    /\ UNCHANGED <<entry, err, graphVars, hierVars, cycleVars, input_dict, authored, block_i,
                   run, first, runVars>>

\* lines 201-232: all_received, all_sent, redundant, and the sends turned
\* off in send_recv and in input_dict
Prune ==
    /\ pc = "scan"
    /\ block_i > Len(input_dict.nodes.keys)
    /\ LET received == AllReceived(send_recv)
           st == PruneFrom([send_recv |-> send_recv, input_dict |-> input_dict],
                           Redundant(AllSent(send_recv), received), 1)
       IN  /\ all_received' = received
           /\ send_recv' = st.send_recv
           /\ input_dict' = st.input_dict
    /\ pc' = "make_graph"
    /\ UNCHANGED <<entry, err, graphVars, hierVars, cycleVars, authored, block_i, run, first,
                   runVars>>

\* if cycle_in_graph(graph_send): raise ValueError
SerializeCycleChecked ==
    /\ pc = "serialize_cycle_checked"
    /\ IF cycle_ret = "True"
       THEN err' = CycleError /\ pc' = "raised"
       ELSE err' = err /\ pc' = "hierarchicy"
    /\ UNCHANGED <<entry, send_recv, graphVars, hierVars, cycleVars, docVars, runVars>>

\* where serialize returns to: run goes on to construct the Wrapper
SerializeReturnPc == IF entry = "run" THEN "run_serialized" ELSE "done"

\* self.prettyprinter(...); return send_recv, all_received, graph, ..., layers
SerializeReturn ==
    /\ pc = "serialize_layered"
    /\ pc' = SerializeReturnPc
    /\ UNCHANGED <<entry, err, send_recv, graphVars, hierVars, cycleVars, docVars, runVars>>

\* what a call of serialize returned, and the document it left
Outcome ==
    [input_dict |-> input_dict, send_recv |-> send_recv, graph |-> graph,
     graph_send |-> graph_send, graph_recv |-> graph_recv, layers |-> layers]

\* serialize is called a second time on the document the first call left
Rerun ==
    /\ entry = "serialize"
    /\ pc = "done"
    /\ run = 1
    /\ first' = Outcome
    /\ run' = 2
    /\ pc' = "serialize"
    /\ block_i' = 0
    /\ FreshLocals
    /\ UNCHANGED <<entry, err, input_dict, authored, runVars>>

SerializeStep ==
    \/ SerializeStart
    \/ ScanBlock
    \/ Prune
    \/ SerializeCycleChecked
    \/ SerializeReturn

---------------------------------------------------------------------------
(* The documents serialize is called on: three nodes with name and         *)
(* library, and at most MaxEntries entries of Entries in their sections.   *)

\* entries of the sections of a document
MaxEntries == 5

DocIds == <<IdA, IdB, IdC>>
IdZ == <<"Z">>
VarY == <<"y">>
KeyP == <<"p">>
KeyQ == <<"q">>
KeyR == <<"r">>

\* the reference string "@id@var"
Ref(id, var) == StrVal(<<At>> \o id \o <<At>> \o var)

Entry(node, sec, key, val) == [node |-> node, sec |-> sec, key |-> key, val |-> val]

Entries == <<
    Entry(IdA, "outputs", VarX, BoolVal(TRUE)),
    Entry(IdB, "outputs", VarX, BoolVal(TRUE)),
    Entry(IdC, "outputs", VarX, BoolVal(TRUE)),
    Entry(IdA, "outputs", VarY, BoolVal(TRUE)),
    Entry(IdA, "wrapper_io", VarX, BoolVal(TRUE)),
    Entry(IdA, "method.outputs", VarX, BoolVal(TRUE)),
    Entry(IdA, "outputs", VarX, BoolVal(FALSE)),
    Entry(IdA, "wrapper_io", VarX, NumVal(5)),
    Entry(IdB, "inputs", KeyP, Ref(IdA, VarX)),
    Entry(IdC, "inputs", KeyP, Ref(IdB, VarX)),
    Entry(IdA, "inputs", KeyP, Ref(IdB, VarX)),
    Entry(IdA, "wrapper_io", VarY, Ref(IdA, VarX)),
    Entry(IdC, "inputs", KeyQ, Ref(IdA, VarX)),
    Entry(IdB, "wrapper_io", VarX, Ref(IdA, VarY)),
    Entry(IdB, "method.inputs", KeyP, Ref(IdA, VarY)),
    Entry(IdB, "inputs", KeyQ, Ref(IdZ, VarX)),
    Entry(IdC, "method.inputs", KeyP, StrVal(<<At>> \o IdA \o <<At>> \o VarX \o <<Space>>)),
    Entry(IdC, "inputs", KeyR, StrVal(<<>>)),
    Entry(IdC, "wrapper_io", KeyR, StrVal(<<At>> \o IdA))
>>

\* entries that make a node fail validate_keys
SchemaEntries == <<
    Entry(IdA, "-name", <<>>, BoolVal(FALSE)),
    Entry(IdB, "-library", <<>>, BoolVal(FALSE)),
    Entry(IdC, "+task", <<>>, BoolVal(FALSE)),
    Entry(IdB, "+task", <<>>, BoolVal(FALSE))
>>

AllEntries == Entries \o SchemaEntries

\* a block with the mandatory keys only
BaseBlock == [name |-> "name", library |-> "library"]

\* a method with its name only
BaseMethod == [name |-> "method"]

BaseDoc == [nodes |-> [keys |-> DocIds, val |-> [id \in Range(DocIds) |-> BaseBlock]]]

\* the block without the key
Without(block, key) == [k \in DOMAIN block \ {key} |-> block[k]]

\* the block with the entry written into its section; the sections "-name"
\* and "-library" take the mandatory key away and "+task" adds a key that
\* validate_keys does not know
BlockWith(block, e) ==
    IF e.sec = "-name" THEN Without(block, "name")
    ELSE IF e.sec = "-library" THEN Without(block, "library")
    ELSE IF e.sec = "+task" THEN block @@ ("task" :> "task")
    ELSE IF e.sec \in {"method.inputs", "method.outputs"}
    THEN LET key == IF e.sec = "method.inputs" THEN "inputs" ELSE "outputs"
             method == IF "method" \in DOMAIN block THEN block["method"] ELSE BaseMethod
             sec == IF key \in DOMAIN method THEN method[key] ELSE EmptyDict
             method2 == IF key \in DOMAIN method
                        THEN [method EXCEPT ![key] = DictSet(sec, e.key, e.val)]
                        ELSE method @@ (key :> DictSet(sec, e.key, e.val))
         IN  IF "method" \in DOMAIN block
             THEN [block EXCEPT !["method"] = method2]
             ELSE block @@ ("method" :> method2)
    ELSE IF e.sec \in DOMAIN block
         THEN [block EXCEPT ![e.sec] = DictSet(@, e.key, e.val)]
         ELSE block @@ (e.sec :> DictSet(EmptyDict, e.key, e.val))

\* the document with the entries Entries[idx[i]], ..., written in that order
RECURSIVE DocFrom(_, _, _)
DocFrom(doc, idx, i) ==
    IF i > Len(idx) THEN doc
    ELSE LET e == AllEntries[idx[i]]
         IN  DocFrom([doc EXCEPT !.nodes.val[e.node] = BlockWith(@, e)], idx, i + 1)

\* the strictly increasing sequences over 1..n of length at most l
RECURSIVE IncSeqs(_, _)
IncSeqs(n, l) ==
    IF l = 0 THEN {<<>>}
    ELSE LET P == IncSeqs(n, l - 1)
         IN  P \cup UNION {{Append(s, j) : j \in (IF s = <<>> THEN 1 ELSE s[Len(s)] + 1)..n} :
                              s \in {t \in P : Len(t) = l - 1}}

\* no two of the entries write the same key of the same section
Compatible(idx) ==
    \A i, j \in 1..Len(idx) :
        (i # j) => <<AllEntries[idx[i]].node, AllEntries[idx[i]].sec, AllEntries[idx[i]].key>>
                     # <<AllEntries[idx[j]].node, AllEntries[idx[j]].sec, AllEntries[idx[j]].key>>

Init ==
    /\ entry = "serialize"
    /\ pc = "serialize"
    /\ err = "none"
    /\ \E idx \in IncSeqs(Len(Entries), MaxEntries) :
          /\ Compatible(idx)
          /\ input_dict = DocFrom(BaseDoc, idx, 1)
          /\ authored = DocFrom(BaseDoc, idx, 1)
    /\ all_received = <<>>
    /\ block_i = 0
    /\ run = 1
    /\ first = <<>>
    /\ send_recv = EmptyDict
    /\ graph = <<>>
    /\ graph_send = EmptyDict
    /\ graph_recv = EmptyDict
    /\ HierIdle
    /\ CycleIdle
    /\ RunIdle

Next ==
    \/ SerializeStep
    \/ MakeGraph
    \/ CycleStep
    \/ HierStep
    \/ Rerun

Spec == Init /\ [][Next]_vars

---------------------------------------------------------------------------
(* run, Settings.copy_inputscript and Wrapper *)

\* json.dump(d, f, sort_keys=True) of a dict: the file holds the entries in
\* the order of the keys, whatever order the dict had
JsonOfDict(d) == d.val

\* the method block as written to the file
JsonOfMethod(method) ==
    [k \in DOMAIN method |->
        IF k \in {"inputs", "outputs"} THEN JsonOfDict(method[k]) ELSE method[k]]

\* a node as written to the file
JsonOfBlock(block) ==
    [k \in DOMAIN block |->
        IF k \in {"inputs", "outputs", "wrapper_io"} THEN JsonOfDict(block[k])
        ELSE IF k = "method" THEN JsonOfMethod(block[k])
        ELSE block[k]]

\* json.dump(input_dict, f, indent=4, sort_keys=True): the contents of input.json
copy_inputscript(doc) ==
    [k \in DOMAIN doc |->
        IF k = "nodes"
        THEN [id \in DOMAIN doc.nodes.val |-> JsonOfBlock(doc.nodes.val[id])]
        ELSE doc[k]]

\* the document as the scan and the pruning pass of serialize would leave it
PrunedDoc(doc) ==
    IF "nodes" \notin DOMAIN doc THEN doc
    ELSE LET sr == [keys |-> doc.nodes.keys,
                    val |-> [id \in DOMAIN doc.nodes.val |->
                               [send |-> BlockSend(doc.nodes.val[id]),
                                recv |-> BlockRecv(doc.nodes.val[id])]]]
         IN  PruneFrom([send_recv |-> sr, input_dict |-> doc],
                       Redundant(AllSent(sr), AllReceived(sr)), 1).input_dict

\* (mutation) input.json holds the document the pruning pass leaves
RunCopyInputscript_pruned ==
    /\ pc = "run"
    /\ persisted' = copy_inputscript(PrunedDoc(input_dict))
    /\ pc' = "serialize"
    /\ UNCHANGED <<entry, err, send_recv, graphVars, hierVars, cycleVars, docVars,
                   wrapper, group_i, node_i, log, stackVars>>

\* settings.copy_inputscript(input_dict), then parser = Parser(input_dict, logger)
\* and parser.serialize()
RunCopyInputscript ==
    /\ pc = "run"
    /\ persisted' = copy_inputscript(input_dict)
    /\ pc' = "serialize"
    /\ UNCHANGED <<entry, err, send_recv, graphVars, hierVars, cycleVars, docVars,
                   wrapper, group_i, node_i, log, stackVars>>

\* Stack(): self.stack = {}
EmptyStack == EmptyDict

\* the libraries whose adapter modules are imported (pdw, cmlw, sklw); a
\* node of any other library is registered with no adapter
AdapterLibraries == {"pandas", "chemml", "sklearn"}

\* (mutation) run goes on to the Wrapper when serialize raised, too
WrapperReady_afterRaise == pc \in {"run_serialized", "raised"}

\* serialize has returned and run constructs the Wrapper
WrapperReady == pc = "run_serialized"

\* wrapper = Wrapper(input_dict, ..., layers): __init__ up to self.call(),
\* and self.refs = {} of call
WrapperInit ==
    /\ WrapperReady
    /\ wrapper' = [input_dict |-> input_dict, layers |-> layers]
    /\ self_stack' = EmptyStack
    /\ group_i' = 1
    /\ node_i' = 1
    /\ pc' = "call"
    /\ UNCHANGED <<entry, err, send_recv, graphVars, hierVars, cycleVars, docVars,
                   persisted, log, calls>>

\* (mutation) the outer loop takes the first group every time
GroupAt_first(ls, i) == ls[1]

\* for group in self.layers
GroupAt(ls, i) == ls[i]

\* for block_id in group: block = ...; name; library; prettyprint('block_start', ...)
WrapperBlockStart ==
    /\ pc = "call"
    /\ group_i <= Len(wrapper.layers)
    /\ node_i <= Len(GroupAt(wrapper.layers, group_i))
    /\ LET block_id == GroupAt(wrapper.layers, group_i)[node_i]
           block == wrapper.input_dict.nodes.val[block_id]
       IN  log' = Append(log, [level |-> "block_start", block_id |-> block_id,
                               name |-> block["name"], library |-> block["library"]])
    /\ pc' = "call_block"
    /\ UNCHANGED <<entry, err, send_recv, graphVars, hierVars, cycleVars, docVars,
                   persisted, wrapper, group_i, node_i, stackVars>>

\* the dispatch to the adapters is a string literal: nothing is executed
\* between block_start and prettyprint('block_end', run_time)
WrapperBlockEnd ==
    /\ pc = "call_block"
    /\ log' = Append(log, [level |-> "block_end",
                           block_id |-> GroupAt(wrapper.layers, group_i)[node_i]])
    /\ node_i' = node_i + 1
    /\ pc' = "call"
    /\ UNCHANGED <<entry, err, send_recv, graphVars, hierVars, cycleVars, docVars,
                   persisted, wrapper, group_i, stackVars>>

\* the inner loop is over: the next group
WrapperNextGroup ==
    /\ pc = "call"
    /\ group_i <= Len(wrapper.layers)
    /\ node_i > Len(GroupAt(wrapper.layers, group_i))
    /\ group_i' = group_i + 1
    /\ node_i' = 1
    /\ UNCHANGED <<entry, pc, err, send_recv, graphVars, hierVars, cycleVars, docVars,
                   persisted, wrapper, log, stackVars>>

\* the outer loop is over: prettyprint('finish', total_time), and run returns
WrapperFinish ==
    /\ pc = "call"
    /\ group_i > Len(wrapper.layers)
    /\ log' = Append(log, [level |-> "finish"])
    /\ pc' = "done"
    /\ UNCHANGED <<entry, err, send_recv, graphVars, hierVars, cycleVars, docVars,
                   persisted, wrapper, group_i, node_i, stackVars>>

WrapperStep ==
    \/ WrapperInit
    \/ WrapperBlockStart
    \/ WrapperBlockEnd
    \/ WrapperNextGroup
    \/ WrapperFinish

---------------------------------------------------------------------------
(* run called on the documents of three or four nodes with at most         *)
(* MaxRunEntries entries of AllEntries, and on a document without 'nodes'. *)

\* entries of the sections of a document handed to run
MaxRunEntries == 4

RunIds == <<IdA, IdB, IdC, IdD>>

\* the document of the nodes ids, each with the mandatory keys only
RunBaseDoc(ids) == [nodes |-> [keys |-> ids, val |-> [id \in Range(ids) |-> BaseBlock]]]

\* a document without the key 'nodes'
NoNodesDoc == [template_id |-> "template_id"]

InitRun ==
    /\ entry = "run"
    /\ pc = "run"
    /\ err = "none"
    /\ \/ \E ids \in {DocIds, RunIds} : \E idx \in IncSeqs(Len(AllEntries), MaxRunEntries) :
             /\ Compatible(idx)
             /\ input_dict = DocFrom(RunBaseDoc(ids), idx, 1)
             /\ authored = DocFrom(RunBaseDoc(ids), idx, 1)
       \/ input_dict = NoNodesDoc /\ authored = NoNodesDoc
    /\ all_received = <<>>
    /\ block_i = 0
    /\ run = 1
    /\ first = <<>>
    /\ send_recv = EmptyDict
    /\ graph = <<>>
    /\ graph_send = EmptyDict
    /\ graph_recv = EmptyDict
    /\ HierIdle
    /\ CycleIdle
    /\ RunIdle

NextRun ==
    \/ RunCopyInputscript
    \/ SerializeStep
    \/ MakeGraph
    \/ CycleStep
    \/ HierStep
    \/ WrapperStep

SpecRun == InitRun /\ [][NextRun]_vars

---------------------------------------------------------------------------
(* serialize called on a document and then on the same document with its   *)
(* node ids in another order.  The documents have three nodes and at most  *)
(* MaxOrderEntries of the entries OrderEntries, or no 'nodes'.             *)

\* entries of the sections of a document that is serialized in two orders
MaxOrderEntries == 4

\* the entries of AllEntries the documents are made of: sends, references
\* that form chains, a diamond and a cycle, a broken reference, the empty
\* string, and the four schema errors
OrderEntries == <<AllEntries[1], AllEntries[2], AllEntries[9], AllEntries[10], AllEntries[11],
                  AllEntries[13], AllEntries[16], AllEntries[18], AllEntries[20],
                  AllEntries[21], AllEntries[22], AllEntries[23]>>

\* the position of the entry in AllEntries
IndexOf(e) == CHOOSE i \in 1..Len(AllEntries) : AllEntries[i] = e

\* the orders of the ids
Perms(ids) == {p \in [1..Len(ids) -> Range(ids)] : Range(p) = Range(ids)}

\* the document with its node ids in the order keys
Reordered(doc, keys) == [doc EXCEPT !.nodes.keys = keys]

\* what a call of serialize ended with: the exception or the layers, and
\* the document it left
Ending == [pc |-> pc, err |-> err, layers |-> layers, input_dict |-> input_dict]

\* the first call is over; serialize is called on the authored document
\* with its node ids in another order
Reorder ==
    /\ entry = "serialize"
    /\ pc \in {"done", "raised"}
    /\ run = 1
    /\ "nodes" \in DOMAIN authored
    /\ \E keys \in Perms(authored.nodes.keys) :
          /\ keys # authored.nodes.keys
          /\ input_dict' = Reordered(authored, keys)
    /\ first' = Ending
    /\ run' = 2
    /\ err' = "none"
    /\ pc' = "serialize"
    /\ block_i' = 0
    /\ FreshLocals
    /\ UNCHANGED <<entry, authored, runVars>>

InitOrder ==
    /\ entry = "serialize"
    /\ pc = "serialize"
    /\ err = "none"
    /\ \/ \E sel \in IncSeqs(Len(OrderEntries), MaxOrderEntries) :
             LET idx == [i \in 1..Len(sel) |-> IndexOf(OrderEntries[sel[i]])]
             IN  /\ Compatible(idx)
                 /\ input_dict = DocFrom(BaseDoc, idx, 1)
                 /\ authored = DocFrom(BaseDoc, idx, 1)
       \/ input_dict = NoNodesDoc /\ authored = NoNodesDoc
    /\ all_received = <<>>
    /\ block_i = 0
    /\ run = 1
    /\ first = <<>>
    /\ send_recv = EmptyDict
    /\ graph = <<>>
    /\ graph_send = EmptyDict
    /\ graph_recv = EmptyDict
    /\ HierIdle
    /\ CycleIdle
    /\ RunIdle

NextOrder ==
    \/ SerializeStep
    \/ MakeGraph
    \/ CycleStep
    \/ HierStep
    \/ Reorder

SpecOrder == InitOrder /\ [][NextOrder]_vars

---------------------------------------------------------------------------
(* The token resolver alone: serialize scans a document of one node with   *)
(* one value, any string of at most MaxStr characters of Alphabet, a       *)
(* boolean or a number, in inputs, wrapper_io or method.inputs.            *)

\* characters of a value
MaxStr == 6

Alphabet == {At, Space, "A", "x"}

\* the values of one entry
TokenValues ==
    {StrVal(str) : str \in SeqUpTo(Alphabet, MaxStr)}
        \cup {BoolVal(TRUE), BoolVal(FALSE), NumVal(5)}

\* the sections the resolver reads references from
RecvSections == {"inputs", "wrapper_io", "method.inputs"}

\* the document of the node A with the value under the key p of the section
TokenDoc(sec, val) ==
    [nodes |-> [keys |-> <<IdA>>,
                val |-> (IdA :> BlockWith(BaseBlock, Entry(IdA, sec, KeyP, val)))]]

InitToken ==
    /\ entry = "serialize"
    /\ pc = "serialize"
    /\ err = "none"
    /\ \E sec \in RecvSections : \E val \in TokenValues :
          /\ input_dict = TokenDoc(sec, val)
          /\ authored = TokenDoc(sec, val)
    /\ all_received = <<>>
    /\ block_i = 0
    /\ run = 1
    /\ first = <<>>
    /\ send_recv = EmptyDict
    /\ graph = <<>>
    /\ graph_send = EmptyDict
    /\ graph_recv = EmptyDict
    /\ HierIdle
    /\ CycleIdle
    /\ RunIdle

\* serialize up to the end of the scan
NextToken == SerializeStart \/ ScanBlock

SpecToken == InitToken /\ [][NextToken]_vars

---------------------------------------------------------------------------
(* Stack: push and pull called in any order, MaxCalls times at most, on    *)
(* the tokens Tokens with the values Values.                               *)

\* calls of push and pull
MaxCalls == 3

\* None
NoneVal == [none |-> TRUE]

Tokens == {<<IdA, VarX>>, <<IdA, VarY>>}
Values == {NumVal(1), NumVal(2)}

\* a call with what it returned; raised says whether it raised an exception
Call(op, token, value, ret, raised) ==
    [op |-> op, token |-> token, value |-> value, ret |-> ret, raised |-> raised]

\* def push(self, token, value): pass
StackPush ==
    /\ entry = "Stack"
    /\ Len(calls) < MaxCalls
    /\ \E token \in Tokens : \E value \in Values :
          calls' = Append(calls, Call("push", token, value, NoneVal, FALSE))
    /\ UNCHANGED <<entry, pc, err, send_recv, graphVars, hierVars, cycleVars, docVars,
                   wrapperVars, self_stack>>

\* def pull(self, token): pass
StackPull ==
    /\ entry = "Stack"
    /\ Len(calls) < MaxCalls
    /\ \E token \in Tokens :
          calls' = Append(calls, Call("pull", token, NoneVal, NoneVal, FALSE))
    /\ UNCHANGED <<entry, pc, err, send_recv, graphVars, hierVars, cycleVars, docVars,
                   wrapperVars, self_stack>>

\* stack = Stack()
InitStack ==
    /\ entry = "Stack"
    /\ pc = "done"
    /\ err = "none"
    /\ send_recv = EmptyDict
    /\ graph = <<>>
    /\ graph_send = EmptyDict
    /\ graph_recv = EmptyDict
    /\ HierIdle
    /\ CycleIdle
    /\ DocIdle
    /\ persisted = <<>>
    /\ wrapper = <<>>
    /\ group_i = 0
    /\ node_i = 0
    /\ log = <<>>
    /\ self_stack = EmptyStack
    /\ calls = <<>>

NextStack == StackPush \/ StackPull

SpecStack == InitStack /\ [][NextStack]_vars

---------------------------------------------------------------------------
(* Properties of cycle_in_graph (SpecCycle) *)

\* C1: on every graph given as a mapping vertex -> neighbours (a neighbour
\* that is no key has no successors), cycle_in_graph returns True if the
\* graph has a directed cycle, self-loops included, and False if it has none.
C1_CycleIffReturnsTrue ==
    (entry = "cycle_in_graph" /\ pc = "done") =>
        /\ cycle_ret \in {"True", "False"}
        /\ (cycle_ret = "True") <=> HasCycle(graph_send)

\* a run that returned True on a graph without self-loop with a neighbour that is no key
C1_Witness ==
    /\ entry = "cycle_in_graph"
    /\ pc = "done"
    /\ cycle_ret = "True"
    /\ \A v \in VerticesOf(graph_send) : <<v, v>> \notin EdgesOf(graph_send)
    /\ VerticesOf(graph_send) # DOMAIN graph_send.val

---------------------------------------------------------------------------
(* Properties of make_graph and hierarchicy (SpecLayer) *)

\* the indices of the layers that hold id
LayersOf(ls, id) == {i \in 1..Len(ls) : id \in Range(ls[i])}

\* hierarchicy has returned layers
HierReturned == entry = "hierarchicy" /\ pc = "done"

\* C2: when hierarchicy returns, every edge (u -> v) of the graph built by
\* make_graph has u in a strictly earlier layer than v.
C2_EdgesGoForward ==
    HierReturned =>
        \A e \in Range(graph) \cup EdgesOf(graph_send) :
            /\ LayersOf(layers, e[1]) # {}
            /\ LayersOf(layers, e[2]) # {}
            /\ \A i \in LayersOf(layers, e[1]), j \in LayersOf(layers, e[2]) : i < j

\* a layering of three layers was returned for a graph with edges
C2_Witness == HierReturned /\ Len(layers) = 3 /\ Len(graph) >= 2

\* C3: when hierarchicy returns, every node id is in exactly one layer and
\* exactly once in it.
C3_LayersPartitionNodes ==
    HierReturned =>
        /\ Range(Concat(layers)) = Range(graph_send.keys)
        /\ Len(Concat(layers)) = Len(graph_send.keys)

\* a layering was returned for a graph with an isolated node, two sources and two sinks
C3_Witness ==
    /\ HierReturned
    /\ \E id \in DOMAIN graph_send.val : graph_send.val[id] = <<>> /\ graph_recv.val[id] = <<>>
    /\ Len(start_nodes) >= 2
    /\ Cardinality({id \in DOMAIN graph_send.val :
                       graph_send.val[id] = <<>> /\ graph_recv.val[id] # <<>>}) >= 2

\* the nodes with empty forward adjacency
Sinks(gs) == {id \in DOMAIN gs.val : gs.val[id] = <<>>}

\* some sink is in a non-final layer, or some non-sink is in the final layer
SinkMisplaced(gs, ls) ==
    \/ \E id \in Sinks(gs) : \E i \in 1..(Len(ls) - 1) : id \in Range(ls[i])
    \/ \E id \in Range(ls[Len(ls)]) : id \notin Sinks(gs)

\* C4: hierarchicy returns only when the final layer is exactly the set of
\* sinks; when a sink is in a non-final layer or a non-sink in the final
\* layer, it raises ValueError and returns no layering.
C4_ReturnsOnlySinksLast ==
    /\ HierReturned =>
          /\ Range(layers[Len(layers)]) = Sinks(graph_send)
          /\ ~SinkMisplaced(graph_send, layers)
    /\ (entry = "hierarchicy" /\ pc = "hier_loop" /\ Len(collected) >= Len(graph_send.keys)
          /\ SinkMisplaced(graph_send, layers)) => ENABLED (HierValidate /\ err' = SinkError)
    /\ (entry = "hierarchicy" /\ pc = "raised" /\ err = SinkError) =>
          SinkMisplaced(graph_send, layers)

\* the layering was rejected because a sink is in a non-final layer
C4_Witness ==
    /\ entry = "hierarchicy"
    /\ pc = "raised"
    /\ err = SinkError
    /\ \E id \in Sinks(graph_send) : \E i \in 1..(Len(layers) - 1) : id \in Range(layers[i])

\* the first layer for which all senders of id are placed in earlier layers
\* (layer 0 of the code is layers[1])
EarliestLayer(gr, ls, id) ==
    IF gr.val[id] = <<>> THEN 1
    ELSE 1 + CHOOSE m \in 1..Len(ls) :
                 /\ \A u \in Range(gr.val[id]) : \E i \in 1..m : u \in Range(ls[i])
                 /\ \A k \in 1..(m - 1) :
                        \E u \in Range(gr.val[id]) : \A i \in 1..k : u \notin Range(ls[i])

\* C5: the returned layering is the minimum-depth layering: layer 0 is
\* exactly the set of nodes that receive nothing, and every node, also one
\* that neither sends nor receives, is in the first layer for which all its
\* senders are placed in earlier layers.
C5_MinimumDepthLayering ==
    HierReturned =>
        /\ Range(layers[1]) = {id \in DOMAIN graph_recv.val : graph_recv.val[id] = <<>>}
        /\ \A id \in DOMAIN graph_recv.val : LayersOf(layers, id) = {EarliestLayer(graph_recv, layers, id)}

\* the node neither sends nor receives
Isolated(id) == graph_send.val[id] = <<>> /\ graph_recv.val[id] = <<>>

\* C5 without the nodes that neither send nor receive, which the code
\* places in the second layer
C5_MinimumDepthExceptIsolated ==
    HierReturned =>
        /\ Range(layers[1]) = {id \in DOMAIN graph_recv.val :
                                  graph_recv.val[id] = <<>> /\ ~Isolated(id)}
        /\ \A id \in DOMAIN graph_recv.val :
              LayersOf(layers, id) =
                  IF Isolated(id) THEN {2} ELSE {EarliestLayer(graph_recv, layers, id)}

---------------------------------------------------------------------------
(* Properties of Parser.serialize (Spec) *)

\* the document has 'nodes' and validate_keys accepts every node
SchemaValid(doc) ==
    /\ "nodes" \in DOMAIN doc
    /\ \A id \in DOMAIN doc.nodes.val : validate_keys(doc.nodes.val[id]) = "none"

\* the node declares var as sent: some entry var of outputs, wrapper_io or
\* method.outputs is true
Declared(doc, id, var) ==
    /\ id \in DOMAIN doc.nodes.val
    /\ var \in Range(BlockSend(doc.nodes.val[id]))

\* some recv reference of the document names (id, var)
Referenced(doc, id, var) ==
    \E c \in DOMAIN doc.nodes.val : <<id, var>> \in Range(BlockRecv(doc.nodes.val[c]))

\* some recv reference names a producer that is no node id, or a variable
\* its producer did not declare as sent
HasBrokenRef(doc) ==
    \E c \in DOMAIN doc.nodes.val :
        \E r \in Range(BlockRecv(doc.nodes.val[c])) : ~Declared(doc, r[1], r[2])

\* the dependency edges <<producer, consumer>> of the document
DocEdges(doc) ==
    UNION {{<<r[1], c>> : r \in Range(BlockRecv(doc.nodes.val[c]))} : c \in DOMAIN doc.nodes.val}

\* the dependency graph of the document has a directed cycle
DocHasCycle(doc) ==
    \E p \in PathsUpTo(DocEdges(doc), Cardinality(DOMAIN doc.nodes.val)) : p[1] = p[2]

\* the first call of serialize is over
FirstRunOver == entry = "serialize" /\ run = 1 /\ pc \in {"done", "raised"}

\* the first call of serialize is past its pruning pass
FirstRunPruned ==
    /\ entry = "serialize"
    /\ run = 1
    /\ \/ pc \in {"make_graph", "cycle_in_graph", "cycle_loop", "serialize_cycle_checked",
                  "hierarchicy", "hier_loop", "serialize_layered", "done"}
       \/ pc = "raised" /\ err \in {BrokenPipeError, CycleError, SinkError}

\* C6: for every schema-valid document in which some recv reference names a
\* producer that is no node id or a variable its producer did not declare as
\* sent, serialize raises the broken-pipe ValueError (and so returns nothing).
C6_BrokenRefRaisesBrokenPipe ==
    (FirstRunOver /\ SchemaValid(authored) /\ HasBrokenRef(authored)) =>
        (pc = "raised" /\ err = BrokenPipeError)

\* C6 without the documents on which the scan raises IndexError
C6_BrokenPipeUnlessIndexError ==
    (FirstRunOver /\ SchemaValid(authored) /\ HasBrokenRef(authored)) =>
        (pc = "raised" /\ err \in {BrokenPipeError, IndexErr})

\* C7: for every schema-valid, reference-valid document whose dependency
\* graph has a directed cycle, serialize raises the cycle ValueError after
\* cycle detection and before the layering: hierarchicy is not started and
\* no ordering is returned.
C7_CycleRaisesBeforeLayering ==
    (FirstRunOver /\ SchemaValid(authored) /\ ~HasBrokenRef(authored) /\ DocHasCycle(authored)) =>
        /\ pc = "raised"
        /\ err = CycleError
        /\ cycle_ret = "True"
        /\ layers = <<>>

\* C7 without the documents on which the scan raises IndexError
C7_CycleRaisesUnlessIndexError ==
    (FirstRunOver /\ SchemaValid(authored) /\ ~HasBrokenRef(authored) /\ DocHasCycle(authored)) =>
        /\ pc = "raised"
        /\ layers = <<>>
        /\ \/ err = CycleError /\ cycle_ret = "True"
           \/ err = IndexErr /\ cycle_ret = "none"

\* the sections in which true declares a send
SendSections == {"outputs", "method.outputs", "wrapper_io"}

SendSection(block, name) ==
    IF name = "method.outputs" THEN MethodSection(block, "outputs") ELSE Section(block, name)

\* C8: after the pruning pass, a declared send (id, var) is kept in
\* send_recv[id]['send'] if and only if some recv reference of the document
\* names (id, var); an unreferenced one is false wherever the node declared
\* it true and no recv item (hence no edge) names it; a referenced one stays
\* true wherever it was declared.
C8_SendKeptIffReferenced ==
    FirstRunPruned =>
        \A id \in DOMAIN authored.nodes.val :
            \A var \in Range(BlockSend(authored.nodes.val[id])) :
                /\ (var \in Range(send_recv.val[id].send)) <=> Referenced(authored, id, var)
                /\ \A name \in SendSections :
                      LET old == SendSection(authored.nodes.val[id], name)
                          new == SendSection(input_dict.nodes.val[id], name)
                      IN  (var \in DOMAIN old.val /\ old.val[var] = BoolVal(TRUE)) =>
                              new.val[var] = BoolVal(Referenced(authored, id, var))
                /\ ~Referenced(authored, id, var) =>
                      /\ \A c \in DOMAIN send_recv.val : <<id, var>> \notin Range(send_recv.val[c].recv)
                      /\ Len(graph) <= Len(RecvVisits(send_recv))

\* the pruning pass removed a send declared in two sections and kept a
\* referenced one, and the graph was built
C8_Witness ==
    /\ FirstRunPruned
    /\ pc = "done"
    /\ \E id \in DOMAIN authored.nodes.val :
          \E var \in Range(BlockSend(authored.nodes.val[id])) :
              /\ ~Referenced(authored, id, var)
              /\ Count(BlockSend(authored.nodes.val[id]), var) >= 2
    /\ \E id \in DOMAIN authored.nodes.val :
          \E var \in Range(BlockSend(authored.nodes.val[id])) : Referenced(authored, id, var)
    /\ graph # <<>>

\* C9: a second call of serialize on the document the first successful call
\* left changes no entry of the document and returns the same send_recv,
\* edge list, adjacency maps and layers.
C9_SecondRunSameOutcome ==
    (entry = "serialize" /\ run = 2 /\ pc \in {"done", "raised"}) =>
        (pc = "done" /\ Outcome = first)

\* the pruning pass of the first call changed an entry that was not true
OverwroteOther ==
    \E id \in DOMAIN authored.nodes.val : \E name \in SendSections :
        LET old == SendSection(authored.nodes.val[id], name)
            new == SendSection(first.input_dict.nodes.val[id], name)
        IN  \E var \in DOMAIN old.val : old.val[var] # BoolVal(TRUE) /\ new.val[var] # old.val[var]

\* C9 without the first calls that overwrote an entry that was not true
C9_SameOutcomeUnlessOverwritten ==
    (entry = "serialize" /\ run = 2 /\ pc \in {"done", "raised"} /\ ~OverwroteOther) =>
        (pc = "done" /\ Outcome = first)

\* C10: the pruning pass changes an entry of outputs / method.outputs /
\* wrapper_io only when its value is true and the send is redundant; an
\* entry with any other value is left as authored.
C10_OnlyRedundantTrueChanged ==
    FirstRunPruned =>
        \A id \in DOMAIN authored.nodes.val : \A name \in SendSections :
            LET old == SendSection(authored.nodes.val[id], name)
                new == SendSection(input_dict.nodes.val[id], name)
            IN  /\ DOMAIN new.val = DOMAIN old.val
                /\ \A var \in DOMAIN old.val :
                      (new.val[var] # old.val[var]) =>
                          /\ old.val[var] = BoolVal(TRUE)
                          /\ ~Referenced(authored, id, var)

\* make_graph has returned to the first call of serialize
GraphBuilt ==
    /\ entry = "serialize"
    /\ run = 1
    /\ \/ pc \in {"cycle_in_graph", "cycle_loop", "serialize_cycle_checked",
                  "hierarchicy", "hier_loop", "serialize_layered", "done"}
       \/ pc = "raised" /\ err \in {CycleError, SinkError}

\* the recv references of the consumer c in the document that name the producer p
RefsTo(doc, c, p) ==
    LET recv == BlockRecv(doc.nodes.val[c])
    IN  {i \in 1..Len(recv) : recv[i][1] = p}

\* the distinct tokens of p that c references
TokensOf(doc, c, p) == {BlockRecv(doc.nodes.val[c])[i] : i \in RefsTo(doc, c, p)}

\* C17: when a consumer references several distinct tokens of the same
\* producer, the edge list holds one (producer, consumer) entry per
\* reference, while graph_send[producer] contains the consumer exactly
\* once and graph_recv[consumer] contains the producer exactly once.
C17_AdjacencyCollapsed ==
    GraphBuilt =>
        \A c, p \in DOMAIN authored.nodes.val :
            (Cardinality(TokensOf(authored, c, p)) >= 2) =>
                /\ Count(graph, <<p, c>>) = Cardinality(RefsTo(authored, c, p))
                /\ Count(graph_send.val[p], c) = 1
                /\ Count(graph_recv.val[c], p) = 1

\* what the code does with them: both adjacency lists hold one entry per reference
C17_AdjacencyPerReference ==
    GraphBuilt =>
        \A c, p \in DOMAIN authored.nodes.val :
            /\ Count(graph, <<p, c>>) = Cardinality(RefsTo(authored, c, p))
            /\ Count(graph_send.val[p], c) = Cardinality(RefsTo(authored, c, p))
            /\ Count(graph_recv.val[c], p) = Cardinality(RefsTo(authored, c, p))

\* C18: when make_graph succeeds, the edge list has exactly one (producer,
\* consumer) entry per recv reference of the document, and the three
\* representations agree: (u, v) is in the edge list iff v is in
\* graph_send[u] iff u is in graph_recv[v]; both adjacency maps have
\* exactly the node ids of the document as keys.
C18_GraphRepresentationsAgree ==
    GraphBuilt =>
        /\ \A c, p \in DOMAIN authored.nodes.val :
              Count(graph, <<p, c>>) = Cardinality(RefsTo(authored, c, p))
        /\ \A e \in Range(graph) : e[1] \in DOMAIN authored.nodes.val /\ e[2] \in DOMAIN authored.nodes.val
        /\ \A u, v \in DOMAIN authored.nodes.val :
              /\ (<<u, v>> \in Range(graph)) <=> (v \in Range(graph_send.val[u]))
              /\ (<<u, v>> \in Range(graph)) <=> (u \in Range(graph_recv.val[v]))
        /\ DOMAIN graph_send.val = DOMAIN authored.nodes.val
        /\ DOMAIN graph_recv.val = DOMAIN authored.nodes.val
        /\ graph_send.keys = authored.nodes.keys
        /\ graph_recv.keys = authored.nodes.keys

\* make_graph succeeded on a document in which B references two tokens of
\* A and C references one
C18_Witness ==
    /\ GraphBuilt
    /\ Cardinality(TokensOf(authored, IdB, IdA)) = 2
    /\ Cardinality(RefsTo(authored, IdC, IdA)) = 1
    /\ Len(graph) = 3

---------------------------------------------------------------------------
(* Properties of run and Wrapper (SpecRun) *)

\* the call of serialize made by run is past its pruning pass
RunPruned ==
    /\ entry = "run"
    /\ \/ pc \in {"make_graph", "cycle_in_graph", "cycle_loop", "serialize_cycle_checked",
                  "hierarchicy", "hier_loop", "serialize_layered", "run_serialized",
                  "call", "call_block", "done"}
       \/ pc = "raised" /\ err \in {BrokenPipeError, CycleError, SinkError}

\* the entries of the send sections of the document that the pruning pass changed
PrunedEntries ==
    {<<id, name, var>> \in (DOMAIN authored.nodes.val) \X SendSections \X {VarX, VarY} :
        /\ var \in DOMAIN SendSection(authored.nodes.val[id], name).val
        /\ SendSection(input_dict.nodes.val[id], name).val[var]
              # SendSection(authored.nodes.val[id], name).val[var]}

\* C11: in run, the document persisted as the run's record (input.json,
\* written by Settings.copy_inputscript) is the document that results from
\* the pruning pass: once the pruning pass is over, input.json holds the
\* pruned document.
C11_PersistedIsPrunedDocument ==
    RunPruned => persisted = copy_inputscript(input_dict)

\* C11 amended: input.json is written before serialize is called and holds
\* the document as it was loaded; no change of the pruning pass is in it,
\* and the pruned document is the one handed to the Wrapper.
C11_PersistedIsLoadedDocument ==
    /\ (entry = "run" /\ pc # "run") => persisted = copy_inputscript(authored)
    /\ (entry = "run" /\ pc = "run") => (persisted = <<>> /\ input_dict = authored)
    /\ (entry = "run" /\ wrapper # <<>>) => wrapper.input_dict = input_dict

\* run has finished, the pruning pass changed an entry of the document, and
\* input.json still has the entry as loaded
C11_Witness ==
    /\ entry = "run"
    /\ pc = "done"
    /\ PrunedEntries # {}
    /\ persisted = copy_inputscript(authored)
    /\ persisted # copy_inputscript(input_dict)

\* the positions in the log of the messages of the level about the node
Positions(level, id) ==
    {i \in 1..Len(log) : log[i].level = level /\ log[i].block_id = id}

\* run has returned: Wrapper.call went through all layers
RunReturned == entry = "run" /\ pc = "done"

\* C13: when Wrapper.call runs the layers returned by serialize, every node
\* is started and ended exactly once, all nodes of layer k end before any
\* node of layer k+1 starts, and for every edge (producer -> consumer) the
\* producer's block_end precedes the consumer's block_start.
C13_LayersRunInOrder ==
    /\ (entry = "run" /\ wrapper # <<>>) =>
          \A id \in DOMAIN input_dict.nodes.val :
              /\ Cardinality(Positions("block_start", id)) <= 1
              /\ Cardinality(Positions("block_end", id)) <= Cardinality(Positions("block_start", id))
              /\ \A i \in Positions("block_start", id), j \in Positions("block_end", id) : i < j
    /\ RunReturned =>
          /\ \A id \in DOMAIN input_dict.nodes.val :
                /\ Cardinality(Positions("block_start", id)) = 1
                /\ Cardinality(Positions("block_end", id)) = 1
          /\ \A k \in 1..(Len(layers) - 1) :
                \A u \in Range(layers[k]), v \in Range(layers[k + 1]) :
                    \A i \in Positions("block_end", u), j \in Positions("block_start", v) : i < j
          /\ \A e \in Range(graph) :
                /\ Positions("block_end", e[1]) # {}
                /\ Positions("block_start", e[2]) # {}
                /\ \A i \in Positions("block_end", e[1]), j \in Positions("block_start", e[2]) : i < j

\* run has returned after the three layers of a chain and every node was
\* started and ended
C13_Witness ==
    /\ RunReturned
    /\ Len(layers) = 3
    /\ Len(graph) >= 2
    /\ Len(log) = 2 * Len(input_dict.nodes.keys) + 1

\* the node of the message is registered with no adapter
Unregistered(msg) == msg.library \notin AdapterLibraries

\* C20: during Wrapper.call, a node whose (library, name) pair is not
\* registered with any adapter causes a hard error that names the node, and
\* the run stops there: the node is not reported done, no later node of the
\* same or a later layer is started, and call does not finish.
C20_UnregisteredNodeStopsRun ==
    (entry = "run") =>
        \A i \in 1..Len(log) :
            (log[i].level = "block_start" /\ Unregistered(log[i])) =>
                /\ i = Len(log)
                /\ pc \in {"call_block", "raised"}
                /\ (pc = "raised") => err # "none"

\* what the code does: every node is started and ended and no error is raised
C20_NoNodeRaises ==
    (entry = "run" /\ wrapper # <<>>) =>
        /\ err = "none"
        /\ pc \in {"call", "call_block", "done"}

\* the errors serialize raises
SerializeErrors ==
    {NoNodesError, NameError, LibraryError, KeysError, IndexErr,
     BrokenPipeError, CycleError, SinkError}

\* block_start has been printed for some node
SomeBlockStarted == \E i \in 1..Len(log) : log[i].level = "block_start"

\* serialize returned to run: no error, the cycle detector answered False
\* and the last layer is the set of sinks
SerializeSucceeded ==
    /\ err = "none"
    /\ pc \in {"run_serialized", "call", "call_block", "done"}
    /\ cycle_ret = "False"
    /\ layers # <<>>
    /\ ~SinkMismatch(end_nodes, layers)

\* C22: in run, the Wrapper is constructed and a node is started only after
\* serialize has returned: when serialize raises a schema, reference or
\* structural error, there is no Wrapper, no Stack and no block_start.
C22_NoExecutionUnlessValidated ==
    entry = "run" =>
        /\ (pc = "raised") =>
              /\ err \in SerializeErrors
              /\ wrapper = <<>>
              /\ self_stack = <<>>
              /\ log = <<>>
        /\ (wrapper # <<>> \/ SomeBlockStarted) =>
              /\ SerializeSucceeded
              /\ wrapper.layers = layers

\* run on a document whose graph has a cycle: input.json is written,
\* serialize raises, and nothing is executed
C22_Witness ==
    /\ entry = "run"
    /\ pc = "raised"
    /\ err = CycleError
    /\ persisted # <<>>
    /\ wrapper = <<>>

---------------------------------------------------------------------------
(* Properties of Stack (SpecStack) *)

\* the calls of push of the token before call i
PushedBefore(token, i) ==
    {j \in 1..(i - 1) : calls[j].op = "push" /\ calls[j].token = token}

\* the greatest of a non-empty set of numbers
Last(S) == CHOOSE j \in S : \A k \in S : k <= j

\* C19: Stack.pull(token) for a token that has never been pushed raises an
\* error rather than returning a default value, and Stack.pull(token)
\* after Stack.push(token, value) returns that value.
C19_PullFailsFastOrReturnsPushed ==
    (entry = "Stack") =>
        \A i \in 1..Len(calls) :
            (calls[i].op = "pull") =>
                IF PushedBefore(calls[i].token, i) = {}
                THEN calls[i].raised
                ELSE /\ ~calls[i].raised
                     /\ calls[i].ret = calls[Last(PushedBefore(calls[i].token, i))].value

\* what the code does: push stores nothing and pull returns None
C19_PullReturnsNone ==
    (entry = "Stack") =>
        /\ self_stack = EmptyStack
        /\ \A i \in 1..Len(calls) : ~calls[i].raised /\ calls[i].ret = NoneVal

---------------------------------------------------------------------------
(* Properties of serialize on reordered documents (SpecOrder) *)

\* the exceptions of the schema errors
SchemaErrors == {NoNodesError, NameError, LibraryError, KeysError}

\* the positions of serialize from make_graph on
GraphWork == {"make_graph", "cycle_in_graph", "cycle_loop", "serialize_cycle_checked",
              "hierarchicy", "hier_loop", "serialize_layered", "done"}

\* the entries of the two documents are the same (whatever the order of the node ids)
SameEntries(doc1, doc2) ==
    IF "nodes" \in DOMAIN doc1 /\ "nodes" \in DOMAIN doc2
    THEN doc1.nodes.val = doc2.nodes.val
    ELSE doc1 = doc2

\* no graph work has been done and the document is as authored
NoGraphWork ==
    /\ pc \notin GraphWork
    /\ graph = <<>> /\ graph_send = EmptyDict /\ graph_recv = EmptyDict
    /\ cycle_ret = "none" /\ visited = {} /\ layers = <<>>
    /\ SameEntries(input_dict, authored)

\* C12: if the document lacks 'nodes', or a node lacks 'name' or 'library' or
\* has a key outside all_keys, serialize raises ValueError before any graph
\* work: make_graph, cycle detection and layering are never reached and no
\* entry of the document is modified, whichever position the offending node
\* has in the iteration order.
C12_SchemaErrorRaisesValueError ==
    (entry = "serialize" /\ ~SchemaValid(authored)) =>
        /\ NoGraphWork
        /\ (pc = "raised") => err \in SchemaErrors

\* C12 without the documents on which the scan of a node before the
\* offending one raises IndexError
C12_SchemaErrorUnlessIndexError ==
    (entry = "serialize" /\ ~SchemaValid(authored)) =>
        /\ NoGraphWork
        /\ (pc = "raised") => err \in SchemaErrors \cup {IndexErr}

\* the kind of the error: schema, reference, structural (cycle, sink), or
\* the IndexError of the scan
ErrKind(e) ==
    IF e \in SchemaErrors THEN "schema"
    ELSE IF e = BrokenPipeError THEN "broken pipe"
    ELSE IF e = CycleError THEN "cycle"
    ELSE IF e = SinkError THEN "sink"
    ELSE e

\* the layers as a sequence of sets of node ids
LayerSets(ls) == [i \in 1..Len(ls) |-> Range(ls[i])]

\* the call on the reordered document is over
SecondOrderOver == entry = "serialize" /\ run = 2 /\ pc \in {"done", "raised"}

\* C14: the outcome of serialize does not depend on the order of the node
\* ids: on two orderings of the same nodes, both calls raise the same kind
\* of error or both return layerings that are equal as sequences of sets.
C14_OutcomeIndependentOfOrder ==
    SecondOrderOver =>
        /\ pc = first.pc
        /\ ErrKind(err) = ErrKind(first.err)
        /\ LayerSets(layers) = LayerSets(first.layers)

\* C14 without the documents on which a scan raises IndexError
C14_IndependentUnlessIndexError ==
    (SecondOrderOver /\ IndexErr \notin {err, first.err}) =>
        /\ pc = first.pc
        /\ ErrKind(err) = ErrKind(first.err)
        /\ LayerSets(layers) = LayerSets(first.layers)

\* the chain A -> B -> C serialized with its node ids in the order C, B, A
\* gave the layers [[A], [B], [C]] both times
C14_ChainReordered ==
    /\ SecondOrderOver
    /\ pc = "done"
    /\ input_dict.nodes.keys = <<IdC, IdB, IdA>>
    /\ layers = <<<<IdA>>, <<IdB>>, <<IdC>>>>
    /\ first.layers = layers

---------------------------------------------------------------------------
(* Properties of the token resolver (SpecToken) *)

\* the value of the one entry of the document
TokenValue ==
    LET block == authored.nodes.val[IdA]
        sec == IF "inputs" \in DOMAIN block THEN block["inputs"]
               ELSE IF "wrapper_io" \in DOMAIN block THEN block["wrapper_io"]
               ELSE block["method"]["inputs"]
    IN  sec.val[KeyP]

\* the scan of the node is over: it went on to the next node or raised
Scanned == entry = "serialize" /\ (block_i = 2 \/ pc = "raised")

\* the value is "@" + id + "@" + name for an id and a name without '@'
HasRefForm(val) ==
    /\ IsStr(val)
    /\ Len(val.str) >= 2
    /\ val.str[1] = At
    /\ Cardinality({i \in 2..Len(val.str) : val.str[i] = At}) = 1

\* the id and the name the value is built from
SecondAt(str) == CHOOSE i \in 2..Len(str) : str[i] = At
ProducerIdOf(val) == SubSeq(val.str, 2, SecondAt(val.str) - 1)
VariableNameOf(val) == SubSeq(val.str, SecondAt(val.str) + 1, Len(val.str))

\* the value was recognised as a reference and resolved to (id, name),
\* from which the value is rebuilt
ResolvedTo(id, name) ==
    /\ err = "none"
    /\ send_recv.val[IdA].recv = <<<<id, name>>>>
    /\ LET item == send_recv.val[IdA].recv[1]
       IN  StrVal(<<At>> \o item[1] \o <<At>> \o item[2]) = TokenValue

\* C15: token parsing round-trips: for every producer id and variable name
\* without '@' (names with leading or trailing whitespace and empty names
\* included), the value "@" + id + "@" + name is recognised as a reference
\* and resolved to exactly (id, name), so rebuilding the string from the
\* resolved pair reproduces the value.
C15_TokenRoundTrip ==
    (Scanned /\ HasRefForm(TokenValue)) =>
        ResolvedTo(ProducerIdOf(TokenValue), VariableNameOf(TokenValue))

\* the string ends in whitespace
EndsInSpace(str) == str # <<>> /\ str[Len(str)] = Space

\* C15 amended: the round trip holds for every producer id and every
\* variable name without '@' that does not end in whitespace (val.strip()
\* removes the whitespace at the end of the value); ids with leading or
\* trailing whitespace, names with leading whitespace, and empty ids and
\* names are resolved as they are.
C15_RoundTripUnlessNameEndsInSpace ==
    (Scanned /\ HasRefForm(TokenValue) /\ ~EndsInSpace(VariableNameOf(TokenValue))) =>
        ResolvedTo(ProducerIdOf(TokenValue), VariableNameOf(TokenValue))

\* a reference whose id ends in whitespace and whose name starts with
\* whitespace was resolved
C15_Witness ==
    /\ Scanned
    /\ HasRefForm(TokenValue)
    /\ ProducerIdOf(TokenValue) = <<"A", Space>>
    /\ VariableNameOf(TokenValue) = <<Space, "x">>
    /\ send_recv.val[IdA].recv = <<<<<<"A", Space>>, <<Space, "x">>>>>>

\* the value is no reference: no string, the empty string, a string that
\* does not start with '@', or one whose number of '@' is not two
IsLiteral(val) ==
    \/ ~IsStr(val)
    \/ val.str = <<>>
    \/ val.str[1] # At
    \/ Count(val.str, At) # 2

\* C16: every value in inputs, wrapper_io or method.inputs that is not a
\* reference is treated as a literal: the resolver adds no recv entry for
\* it and raises no error.
C16_LiteralIgnored ==
    (Scanned /\ IsLiteral(TokenValue)) =>
        /\ err = "none"
        /\ send_recv.val[IdA].recv = <<>>

\* C16 without the empty string
C16_LiteralIgnoredUnlessEmpty ==
    (Scanned /\ IsLiteral(TokenValue) /\ TokenValue # StrVal(<<>>)) =>
        /\ err = "none"
        /\ send_recv.val[IdA].recv = <<>>

---------------------------------------------------------------------------
(* Termination of the layering loop (SpecLayer, SpecLayerFair) *)

\* hierarchicy is running, or has returned or raised, on a graph without a cycle
AcyclicLayering ==
    /\ entry = "hierarchicy"
    /\ pc \in {"hierarchicy", "hier_loop", "done", "raised"}
    /\ ~HasCycle(graph_send)

\* the rounds of the while loop made so far: layers = [start_nodes] before the first
Rounds == Len(layers) - 1

\* the nodes placed before round i appended layers[i + 1]
PlacedBefore(i) == UNION {Range(layers[j]) : j \in 1..i}

\* every round so far appended at least one node, and only nodes that no
\* earlier layer holds
EveryRoundPlaced ==
    \A i \in 1..Rounds :
        /\ layers[i + 1] # <<>>
        /\ Range(layers[i + 1]) \cap PlacedBefore(i) = {}

\* hierarchicy has returned or raised
HierOver == entry = "hierarchicy" /\ pc \in {"done", "raised"}

\* the loop goes on: collected does not hold every node yet
LoopGoesOn == pc = "hier_loop" /\ Len(collected) < Len(graph_send.keys)

\* C21: on every acyclic graph that make_graph produces, the layering loop
\* of hierarchicy makes at most |V| rounds, each round appends at least one
\* node that was not placed before, and while the loop goes on the next
\* round has a node to place: it never appends an empty layer.
C21_LayeringTerminates ==
    (entry = "hierarchicy" /\ layers # <<>>) =>
        \/ /\ Rounds <= Len(graph_send.keys)
           /\ EveryRoundPlaced
           /\ LoopGoesOn => (NextLayer(graph_recv, collected) # <<>> /\ Len(layers) <= MaxRounds)
        \/ ~AcyclicLayering

\* with the steps of the call taken whenever they can be (SpecLayerFair),
\* hierarchicy on an acyclic graph returns or raises
C21_LayeringEnds == AcyclicLayering ~> HierOver

\* a chain of four nodes is layered in three rounds
C21_Witness ==
    /\ AcyclicLayering
    /\ HierOver
    /\ Rounds = 3
    /\ Len(graph) = 3

---------------------------------------------------------------------------
(* The stage order of Parser.serialize (Spec) *)

\* the first call of serialize on the document
FirstRun == entry = "serialize" /\ run = 1

\* serialize has not reached the pruning pass, or raised before it
BeforePruning ==
    \/ pc \in {"serialize", "scan"}
    \/ pc = "raised" /\ err \in {NoNodesError, NameError, LibraryError, KeysError, IndexErr}

\* the graph builder has not run
NoGraphYet == graph = <<>> /\ graph_send = EmptyDict /\ graph_recv = EmptyDict

\* C23 (as stated): a document rejected with a broken-pipe or a cycle error
\* has had none of its outputs, method.outputs or wrapper_io entries
\* flipped, because the pruner runs after the graph builder and the cycle
\* detector.
C23_RejectedDocumentUntouched ==
    (FirstRun /\ pc = "raised" /\ err \in {BrokenPipeError, CycleError}) =>
        input_dict = authored

\* C23 (amended): the pruner runs between the scan and the graph builder.
\* Until the scan has validated and resolved every node the document is as
\* authored, and so is a document rejected by the scan; when the pruner has
\* run the graph builder and the cycle detector have not; from then on,
\* whatever make_graph, cycle_in_graph and hierarchicy answer, the document
\* is the pruned one.
C23_PrunedBeforeGraphIsBuilt ==
    FirstRun =>
        /\ BeforePruning => (input_dict = authored /\ NoGraphYet)
        /\ ~BeforePruning => input_dict = PrunedDoc(authored)
        /\ (pc = "make_graph") => (NoGraphYet /\ cycle_ret = "none" /\ layers = <<>>)

\* a document with a redundant send is rejected with a broken-pipe error,
\* its redundant send already turned off
C23_Witness ==
    /\ FirstRun
    /\ pc = "raised"
    /\ err = BrokenPipeError
    /\ input_dict # authored
    /\ input_dict = PrunedDoc(authored)

---------------------------------------------------------------------------
(* The frame of the pruning pass (Spec) *)

\* send_recv as the scan of the document builds it, before any pruning
ScanOf(doc) ==
    [keys |-> doc.nodes.keys,
     val |-> [id \in DOMAIN doc.nodes.val |->
                [send |-> BlockSend(doc.nodes.val[id]), recv |-> BlockRecv(doc.nodes.val[id])]]]

\* some node of sr receives var from id
ReceivedIn(sr, id, var) == \E c \in DOMAIN sr.val : <<id, var>> \in Range(sr.val[c].recv)

\* the sends of id in sr that some node of sr receives, in order
ReceivedSends(sr, id) ==
    LET Received(var) == ReceivedIn(sr, id, var)
    IN  Filter(sr.val[id].send, Received)

\* the graph builder has answered: it raised, or the graph is built
GraphAnswered == ~BeforePruning /\ pc # "make_graph"

\* C24: the pruning pass leaves every recv list as the scan built it and
\* keeps exactly the sends that some node receives, whether or not that
\* node keeps a send of its own (one pass, no cascading); make_graph then
\* answers on the pruned map what it answers on the unpruned one: the same
\* broken-pipe outcome, the same edge list and the same adjacency maps.
C24_PruningTouchesOnlySends ==
    (FirstRun /\ ~BeforePruning) =>
        LET unpruned == ScanOf(authored)
            r == make_graph(unpruned)
        IN  /\ send_recv.keys = unpruned.keys
            /\ \A id \in DOMAIN unpruned.val :
                  /\ send_recv.val[id].recv = unpruned.val[id].recv
                  /\ send_recv.val[id].send = ReceivedSends(unpruned, id)
            /\ (pc = "make_graph") => make_graph(send_recv) = r
            /\ GraphAnswered =>
                  /\ (err = BrokenPipeError) <=> r.raised
                  /\ ~r.raised => /\ graph = r.graph
                                  /\ graph_send = r.graph_send
                                  /\ graph_recv = r.graph_recv

\* B receives x from A and is the only receiver; the one send of B is
\* redundant and turned off; the send of A stays and the edge A -> B is built
C24_Witness ==
    /\ FirstRun
    /\ pc = "done"
    /\ ScanOf(authored).val[IdB].send # <<>>
    /\ send_recv.val[IdB].send = <<>>
    /\ send_recv.val[IdB].recv = <<<<IdA, VarX>>>>
    /\ send_recv.val[IdC].recv = <<>>
    /\ send_recv.val[IdA].send = <<VarX>>
    /\ graph = <<<<IdA, IdB>>>>

---------------------------------------------------------------------------
(* The traversal of cycle_in_graph (SpecCycleFair) *)

\* no element occurs twice in s
Distinct(s) == \A i, j \in 1..Len(s) : (i # j) => s[i] # s[j]

\* path is the sentinel, then a vertex the outer iterator yielded, then at
\* each position a neighbour of the vertex before it
IsChain ==
    /\ (path # <<>>) => path[1] = Sentinel
    /\ (Len(path) >= 2) => path[2] \in Range(graph_send.keys)
    /\ \A i \in 2..(Len(path) - 1) : path[i + 1] \in Range(DictGet(graph_send, path[i]))

\* the position of v in expanded
ExpandedAt(v) == CHOOSE i \in 1..Len(expanded) : expanded[i] = v

\* the invariants of the traversal
TraversalInv ==
    /\ Distinct(path)
    /\ IsChain
    /\ path_set = Range(path)
    /\ Len(stack) = Len(path)
    /\ Distinct(expanded)
    /\ Range(expanded) = visited
    /\ Range(path) \ {Sentinel} \subseteq visited

\* cycle_in_graph has returned
CycleOver == pc = "done" /\ cycle_ret \in {"True", "False"}

\* C25: in every state of the traversal the path holds distinct vertices
\* that form a chain of the graph, path_set is the set of the elements of
\* path, stack and path have the same length, and no vertex has been
\* appended to the path twice, so that a visited vertex that has left the
\* path is not expanded again; and the traversal returns.
C25_TraversalInvariants ==
    /\ [](entry = "cycle_in_graph" => TraversalInv)
    /\ ((entry = "cycle_in_graph" /\ pc = "cycle_in_graph") ~> CycleOver)

\* the iterator on top has just yielded a vertex that was expanded before
\* the vertex on top of the path and has left the path: it was skipped
C25_Witness ==
    /\ entry = "cycle_in_graph"
    /\ pc = "cycle_loop"
    /\ Len(path) >= 2
    /\ TopIter.pos >= 1
    /\ LET v == TopIter.seq[TopIter.pos]
           w == path[Len(path)]
       IN  /\ v \in visited
           /\ v \notin path_set
           /\ ExpandedAt(v) < ExpandedAt(w)

=============================================================================
